---- MODULE Spec2Model ----
(***************************************************************************)
(* Vertex Color Selector (D31_VertexColorSelector.py): the selection       *)
(* operators of the add-on as a state machine over the host's mesh.        *)
(*                                                                         *)
(* Numbers.  A colour channel is a float in the source.  Here it is an     *)
(* exact rational: a colour is a record [n |-> <<r, g, b>>, d |-> den]     *)
(* whose channel i has the value n[i] / (d * 10000).  One unit is 1e-4,    *)
(* the precision round(x, 4) keeps, so a rounded colour has d = 1 and the  *)
(* threshold 0.01 is 100 units.  Binary floating-point error is not        *)
(* modelled.                                                               *)
(***************************************************************************)
EXTENDS Integers, Sequences, FiniteSets, TLC

VARIABLES
    obj_type,          \* context.active_object: "MESH", or "NONE" when there is none
    mode,              \* obj.mode of the active object
    color_attributes,  \* obj.data.color_attributes: sequence of [name, domain]
    color_attribute,   \* scene.vc_selector.color_attribute
    corners,           \* the mesh: face -> sequence of corner (loop) colours, in units
    select,            \* the selection flag of every face / polygon
    op,                \* the operator call that ran last and what it returned
    pick,              \* the modal Pick Vertex Color instance: state, _shift, _ctrl
    event,             \* the event handed to the modal handler in the last step, if any
    cc,                \* a call of color_close (function harness)
    av,                \* a call of the face averaging (function harness)
    data_name,         \* obj.data.name of the active object
    color_previews,    \* scene.vc_selector.color_previews: sequence of [name, color]
    vc_selector_face_colors,       \* items of bpy.types.Scene.vc_selector_face_colors
    last_mesh_id,                  \* scene.vc_selector.last_mesh_id
    vc_selector_color_attr_items,  \* bpy.types.Scene.vc_selector_color_attr_items
    color_attribute_value          \* the number the enum color_attribute stores

vars == <<obj_type, mode, color_attributes, color_attribute, corners, select,
          op, pick, event, cc, av, data_name, color_previews,
          vc_selector_face_colors, last_mesh_id, vc_selector_color_attr_items,
          color_attribute_value>>

\* the colour list and the enum of the attribute dropdown
list_vars == <<data_name, color_previews, vc_selector_face_colors, last_mesh_id,
               vc_selector_color_attr_items, color_attribute_value>>

(***************************************************************************)
(* Units and bounds                                                        *)
(***************************************************************************)
\* VC_SELECTOR_THRESHOLD = 0.01, in units
VC_SELECTOR_THRESHOLD == 100

\* number of faces of the mesh
NumFaces == 3

Channels == 1..3

\* a colourless placeholder: the empty enum identifier '', or no colour yet
NoColor == [n |-> <<0, 0, 0>>, d |-> 0]

Rgb(r, g, b) == [n |-> <<r, g, b>>, d |-> 1]

(***************************************************************************)
(* Pure functions of the source                                            *)
(***************************************************************************)
\* floor of the square root (Newton's iteration from above)
RECURSIVE ISqrtIter(_, _)
ISqrtIter(s, x) ==
    LET y == (x + (s \div x)) \div 2
    IN  IF y >= x THEN x ELSE ISqrtIter(s, y)

ISqrt(s) == IF s = 0 THEN 0 ELSE ISqrtIter(s, s)

\* sum((a - b) ** 2 for a, b in zip(c1[:3], c2[:3])), over the common denominator c1.d * c2.d
SquaredDistance(c1, c2) ==
    LET diff(i) == c1.n[i] * c2.d - c2.n[i] * c1.d
    IN  diff(1) * diff(1) + diff(2) * diff(2) + diff(3) * diff(3)

\* a mutant of color_close: the square root is forgotten
color_close_no_sqrt(c1, c2, threshold) ==
    SquaredDistance(c1, c2) < threshold * c1.d * c2.d

\* a mutant of color_close: <= for <
color_close_le(c1, c2, threshold) ==
    ISqrt(SquaredDistance(c1, c2)) <= threshold * c1.d * c2.d

\* def color_close(c1, c2, threshold=0.01): dist = sum(...) ** 0.5; return dist < threshold
\* dist = sqrt(S) / (c1.d * c2.d); for an integer bound B, sqrt(S) < B iff floor(sqrt(S)) < B
color_close(c1, c2, threshold) ==
    LET dist == ISqrt(SquaredDistance(c1, c2))
    IN  dist < threshold * c1.d * c2.d

\* sum(c[i] for c in colors): Python's sum adds from the left
RECURSIVE channel_sum(_, _)
channel_sum(colors, i) ==
    IF Len(colors) = 0 THEN 0
    ELSE channel_sum(SubSeq(colors, 1, Len(colors) - 1), i) + colors[Len(colors)][i]

\* round(num / den, 4) in units: to the nearest unit, an exact tie to the even one
round4(num, den) ==
    LET q == num \div den
        r == num % den
    IN  IF 2 * r < den THEN q
        ELSE IF 2 * r > den THEN q + 1
        ELSE IF q % 2 = 0 THEN q ELSE q + 1

\* a mutant of avg_linear: a running average, folded corner by corner
RECURSIVE running_mean(_, _)
running_mean(colors, i) ==
    IF Len(colors) = 1 THEN colors[1][i]
    ELSE round4(running_mean(SubSeq(colors, 1, Len(colors) - 1), i) + colors[Len(colors)][i], 2)

avg_linear_running(colors) ==
    [n |-> [i \in Channels |-> running_mean(colors, i)], d |-> 1]

\* avg_linear = tuple(round(sum(c[i] for c in colors)/len(colors), 4) for i in range(3))
avg_linear(colors) ==
    [n |-> [i \in Channels |-> round4(channel_sum(colors, i), Len(colors))], d |-> 1]

\* a mutant of avg_color: the sum is not divided by the number of corners
avg_color_sum(colors) ==
    [n |-> [i \in Channels |-> channel_sum(colors, i)], d |-> 1]

\* avg_color = tuple(sum(c[i] for c in colors) / len(colors) for i in range(3)): not rounded
avg_color(colors) ==
    [n |-> [i \in Channels |-> channel_sum(colors, i)], d |-> Len(colors)]

\* two colours are the same value
SameColor(c1, c2) ==
    \A i \in Channels : c1.n[i] * c2.d = c2.n[i] * c1.d

(***************************************************************************)
(* The host's state the operators read: modes, attributes, the mesh        *)
(***************************************************************************)
\* the modes the operators name, and one they do not support
PaintModes == {"VERTEX_PAINT", "WEIGHT_PAINT", "TEXTURE_PAINT"}

Modes == {"EDIT", "OBJECT"} \cup PaintModes

\* corner colours of the faces a mesh is built from, <<r, g, b>> in units
FacePalette ==
    << << <<5000, 5000, 5000>>, <<5000, 5000, 5000>>, <<5000, 5000, 5000>> >>,
       << <<5100, 5000, 5000>>, <<5100, 5000, 5000>>, <<5100, 5000, 5000>>, <<5100, 5000, 5000>> >>,
       << <<5001, 5000, 5000>>, <<5000, 5000, 5000>>, <<5000, 5000, 5000>> >>,
       << <<5049, 5050, 5050>>, <<5051, 5050, 5050>>, <<5050, 5050, 5050>>, <<5050, 5050, 5050>> >>,
       << <<6000, 5000, 5000>>, <<6000, 5000, 5000>>, <<6000, 5000, 5000>> >>,
       << <<5099, 5000, 5000>>, <<5100, 5000, 5000>>, <<5100, 5000, 5000>> >>,
       << <<5060, 5080, 5000>>, <<5060, 5080, 5000>>, <<5060, 5080, 5000>> >> >>

\* the meshes: NumFaces consecutive palette faces, from every starting point
MeshChoices ==
    { [f \in 1..NumFaces |-> FacePalette[((k + f - 2) % Len(FacePalette)) + 1]] :
        k \in 1..Len(FacePalette) }

\* colours an operator can be asked to select (op.color of the panel button, the enum value)
Targets ==
    { Rgb(5000, 5000, 5000), Rgb(5050, 5050, 5050), Rgb(5100, 5000, 5000) }

Faces == DOMAIN corners

\* bm.loops.layers.color.get(name): the byte colour layer of the face corners of that
\* name, if any (a float colour attribute is a layer of bm.loops.layers.float_color)
loops_layers_color_get(name) ==
    \E k \in DOMAIN color_attributes :
        /\ color_attributes[k].name = name /\ color_attributes[k].domain = "CORNER"
        /\ color_attributes[k].data_type = "BYTE_COLOR"

\* obj.data.vertex_colors.get(name): the byte colour layers of the face corners only
vertex_colors_get(name) ==
    \E k \in DOMAIN color_attributes :
        /\ color_attributes[k].name = name /\ color_attributes[k].domain = "CORNER"
        /\ color_attributes[k].data_type = "BYTE_COLOR"

\* mesh.color_attributes.get(name): an attribute of any domain
color_attributes_get(name) ==
    \E k \in DOMAIN color_attributes : color_attributes[k].name = name

\* the domain of the attribute mesh.color_attributes.get(name) returns
color_attribute_domain(name) ==
    LET k == CHOOSE j \in DOMAIN color_attributes : color_attributes[j].name = name
    IN  color_attributes[k].domain

(***************************************************************************)
(* Select This Color                                                       *)
(***************************************************************************)
\* no ray cast, or a ray that hit nothing
NoRay == [hit |-> FALSE, face_index |-> -1]

\* no event: the last step was not a call of the modal handler
NoEvent == [type |-> "NONE", value |-> "NOTHING", shift |-> FALSE, ctrl |-> FALSE,
            ray |-> NoRay]

NoOp == [name |-> "none", result |-> "NONE", target_color |-> NoColor,
         shift |-> FALSE, ctrl |-> FALSE]

\* mutants of select_this_color_loop
\* the faces that do not match are never deselected
select_this_color_loop_keep(target_color, shift, ctrl, threshold) ==
    [f \in Faces |->
        IF color_close(avg_linear(corners[f]), target_color, threshold)
        THEN (IF ctrl THEN FALSE ELSE TRUE)
        ELSE select[f]]

\* shift alone clears the faces that do not match
select_this_color_loop_clear(target_color, shift, ctrl, threshold) ==
    [f \in Faces |->
        IF color_close(avg_linear(corners[f]), target_color, threshold)
        THEN (IF ctrl THEN FALSE ELSE TRUE)
        ELSE IF ~ctrl THEN FALSE ELSE select[f]]

\* ctrl together with shift selects the matches
select_this_color_loop_ctrl(target_color, shift, ctrl, threshold) ==
    [f \in Faces |->
        IF color_close(avg_linear(corners[f]), target_color, threshold)
        THEN (IF ctrl /\ ~shift THEN FALSE ELSE TRUE)
        ELSE IF ~shift /\ ~ctrl THEN FALSE ELSE select[f]]

\* for face in bm.faces / for poly in obj.data.polygons: the two branches run the same loop
select_this_color_loop(target_color, shift, ctrl, threshold) ==
    [f \in Faces |->
        LET colors == corners[f]
        IN  IF color_close(avg_linear(colors), target_color, threshold)
            THEN (IF ctrl THEN FALSE ELSE TRUE)
            ELSE IF ~shift /\ ~ctrl THEN FALSE
            ELSE select[f]]

\* a mutant of select_this_color_execute: the selection is cleared before the checks
select_this_color_execute_clear_first(color, shift, ctrl) ==
    IF obj_type = "NONE"
    THEN [result |-> "RAISED", select |-> select]
    ELSE IF color_attribute = "" \/ color_attribute = "NONE"
    THEN [result |-> "CANCELLED", select |-> [f \in Faces |-> FALSE]]
    ELSE IF mode = "EDIT" \/ mode \in PaintModes
    THEN IF ~loops_layers_color_get(color_attribute)
         THEN [result |-> "CANCELLED", select |-> [f \in Faces |-> FALSE]]
         ELSE [result |-> "FINISHED",
               select |-> select_this_color_loop(color, shift, ctrl, 100)]
    ELSE [result |-> "CANCELLED", select |-> [f \in Faces |-> FALSE]]

\* VERTEXCOLOR_OT_select_this_color.execute: the value returned and the flags it leaves
\* ("RAISED": obj.mode of no object raises, nothing is returned)
select_this_color_execute(color, shift, ctrl) ==
    LET threshold == 100
        target_color == color
    IN  IF obj_type = "NONE"
        THEN [result |-> "RAISED", select |-> select]
        ELSE IF color_attribute = "" \/ color_attribute = "NONE"
        THEN [result |-> "CANCELLED", select |-> select]
        ELSE IF mode = "EDIT"
        THEN IF ~loops_layers_color_get(color_attribute)
             THEN [result |-> "CANCELLED", select |-> select]
             ELSE [result |-> "FINISHED",
                   select |-> select_this_color_loop(target_color, shift, ctrl, threshold)]
        ELSE IF mode \in PaintModes
        THEN IF ~vertex_colors_get(color_attribute)
             THEN [result |-> "CANCELLED", select |-> select]
             ELSE [result |-> "FINISHED",
                   select |-> select_this_color_loop(target_color, shift, ctrl, threshold)]
        ELSE [result |-> "CANCELLED", select |-> select]

IdlePick == [state |-> "IDLE", self_shift |-> FALSE, self_ctrl |-> FALSE]

\* invoke stores event.shift and event.ctrl and runs execute; op.color is set by the caller
VERTEXCOLOR_OT_select_this_color ==
    /\ pick.state = "IDLE"
    /\ \E color \in Targets, shift \in BOOLEAN, ctrl \in BOOLEAN :
        \E r \in {select_this_color_execute(color, shift, ctrl)} :
            /\ select' = r.select
            /\ op' = [name |-> "select_this_color", result |-> r.result,
                      target_color |-> color, shift |-> shift, ctrl |-> ctrl]
    /\ event' = NoEvent
    /\ UNCHANGED <<obj_type, mode, color_attributes, color_attribute, corners,
                   pick, cc, av>>
    /\ UNCHANGED list_vars

(***************************************************************************)
(* Select Faces By Face Color                                              *)
(***************************************************************************)
\* values of scene.vc_selector.face_colors: the identifier str(avg_linear) of a listed
\* colour, or '' (NoColor) while the enum has no items
FaceColorsValues == Targets \cup {NoColor}

\* face.select_set(color_close(avg_linear, target_color, threshold)) for every face
select_faces_by_face_color_loop(target_color, threshold) ==
    [f \in Faces |->
        LET colors == corners[f]
        IN  color_close(avg_linear(colors), target_color, threshold)]

\* VERTEXCOLOR_OT_select_faces_by_face_color.execute
\* eval(face_colors) gives back the tuple the identifier was printed from; eval('') raises
select_faces_by_face_color_execute(face_colors) ==
    LET threshold == 100
        target_color == face_colors
    IN  IF obj_type = "NONE"
        THEN [result |-> "RAISED", select |-> select]
        ELSE IF color_attribute = "" \/ color_attribute = "NONE"
        THEN [result |-> "CANCELLED", select |-> select]
        ELSE IF face_colors = NoColor
        THEN [result |-> "RAISED", select |-> select]
        ELSE IF mode = "EDIT"
        THEN IF ~loops_layers_color_get(color_attribute)
             THEN [result |-> "CANCELLED", select |-> select]
             ELSE [result |-> "FINISHED",
                   select |-> select_faces_by_face_color_loop(target_color, threshold)]
        ELSE IF mode \in PaintModes
        THEN IF ~vertex_colors_get(color_attribute)
             THEN [result |-> "CANCELLED", select |-> select]
             ELSE [result |-> "FINISHED",
                   select |-> select_faces_by_face_color_loop(target_color, threshold)]
        ELSE [result |-> "CANCELLED", select |-> select]

VERTEXCOLOR_OT_select_faces_by_face_color ==
    /\ pick.state = "IDLE"
    /\ \E face_colors \in FaceColorsValues :
        \E r \in {select_faces_by_face_color_execute(face_colors)} :
            /\ select' = r.select
            /\ op' = [name |-> "select_faces_by_face_color", result |-> r.result,
                      target_color |-> face_colors, shift |-> FALSE, ctrl |-> FALSE]
    /\ event' = NoEvent
    /\ UNCHANGED <<obj_type, mode, color_attributes, color_attribute, corners,
                   pick, cc, av>>
    /\ UNCHANGED list_vars

(***************************************************************************)
(* Pick Vertex Color (modal)                                               *)
(***************************************************************************)
\* scene.ray_cast under the cursor: no hit, or a face index of the object hit, which
\* may be more than the active mesh has
RayResults == {NoRay} \cup {[hit |-> TRUE, face_index |-> i] : i \in 0..NumFaces}

\* the events the modal handler can receive; the ray is cast on a left press only
Events ==
    {[type |-> "LEFTMOUSE", value |-> "PRESS", shift |-> s, ctrl |-> c, ray |-> r] :
        s \in BOOLEAN, c \in BOOLEAN, r \in RayResults}
    \cup
    {[type |-> tv[1], value |-> tv[2], shift |-> FALSE, ctrl |-> FALSE, ray |-> NoRay] :
        tv \in { <<"LEFTMOUSE", "RELEASE">>, <<"MOUSEMOVE", "NOTHING">>,
                 <<"RIGHTMOUSE", "PRESS">>, <<"RIGHTMOUSE", "RELEASE">>,
                 <<"ESC", "PRESS">> }}

\* a mutant of is_cancel_event: a right click no longer cancels
is_cancel_event_esc_only(e) == e.type = "ESC"

\* event.type in {'RIGHTMOUSE', 'ESC'}
is_cancel_event(e) == e.type \in {"RIGHTMOUSE", "ESC"}

\* event.type == 'LEFTMOUSE' and event.value == 'PRESS'
is_confirm_event(e) == e.type = "LEFTMOUSE" /\ e.value = "PRESS"

\* the loop of the modal handler, the same in its bmesh and its mesh branch
pick_vertex_color_loop(avg, shift, ctrl, threshold) ==
    [f \in Faces |->
        LET face_colors == corners[f]
            face_avg == avg_linear(face_colors)
        IN  IF color_close(face_avg, avg, threshold)
            THEN (IF ctrl THEN FALSE ELSE TRUE)
            ELSE IF ~shift /\ ~ctrl THEN FALSE
            ELSE select[f]]

PickReturn(result, sel, color, shift, ctrl) ==
    [result |-> result, select |-> sel, target_color |-> color,
     shift |-> shift, ctrl |-> ctrl]

PickCancelled == PickReturn("CANCELLED", select, NoColor, FALSE, FALSE)

\* a mutant of pick_vertex_color_confirm: each modifier is held if it was held at the
\* click or at the invocation
pick_vertex_color_confirm_either(e) ==
    LET face_index == e.ray.face_index
        color_attr_name == color_attribute
        \* the corner colours of the picked face, or <<>> where a check returned CANCELLED
        found ==
            IF mode = "EDIT"
            THEN face_index < Len(corners) /\ loops_layers_color_get(color_attr_name)
            ELSE /\ face_index < Len(corners)
                 /\ (vertex_colors_get(color_attr_name) \/ color_attributes_get(color_attr_name))
                 /\ (vertex_colors_get(color_attr_name)
                        \/ color_attribute_domain(color_attr_name) = "CORNER")
        colors == IF found THEN corners[face_index + 1] ELSE <<>>
        avg == avg_color(colors)
        threshold == VC_SELECTOR_THRESHOLD
        shift == e.shift \/ pick.self_shift
        ctrl == e.ctrl \/ pick.self_ctrl
    IN  IF ~found THEN PickCancelled
        ELSE IF Len(colors) = 0 THEN PickCancelled
        ELSE IF mode = "EDIT"
        THEN IF ~loops_layers_color_get(color_attr_name)
             THEN PickReturn("CANCELLED", select, avg, shift, ctrl)
             ELSE PickReturn("FINISHED", pick_vertex_color_loop(avg, shift, ctrl, threshold),
                             avg, shift, ctrl)
        ELSE IF ~(vertex_colors_get(color_attr_name) \/ color_attributes_get(color_attr_name))
             THEN PickReturn("CANCELLED", select, avg, shift, ctrl)
             ELSE PickReturn("FINISHED", pick_vertex_color_loop(avg, shift, ctrl, threshold),
                             avg, shift, ctrl)

\* the left-press branch once a face was hit and an attribute is selected
pick_vertex_color_confirm(e) ==
    LET face_index == e.ray.face_index
        color_attr_name == color_attribute
        \* the corner colours of the picked face, or <<>> where a check returned CANCELLED
        found ==
            IF mode = "EDIT"
            THEN face_index < Len(corners) /\ loops_layers_color_get(color_attr_name)
            ELSE /\ face_index < Len(corners)
                 /\ (vertex_colors_get(color_attr_name) \/ color_attributes_get(color_attr_name))
                 /\ (vertex_colors_get(color_attr_name)
                        \/ color_attribute_domain(color_attr_name) = "CORNER")
        colors == IF found THEN corners[face_index + 1] ELSE <<>>
        avg == avg_color(colors)
        threshold == VC_SELECTOR_THRESHOLD
        shift == IF e.shift \/ e.ctrl THEN e.shift ELSE pick.self_shift
        ctrl == IF e.shift \/ e.ctrl THEN e.ctrl ELSE pick.self_ctrl
    IN  IF ~found THEN PickCancelled
        ELSE IF Len(colors) = 0 THEN PickCancelled
        ELSE IF mode = "EDIT"
        THEN IF ~loops_layers_color_get(color_attr_name)
             THEN PickReturn("CANCELLED", select, avg, shift, ctrl)
             ELSE PickReturn("FINISHED", pick_vertex_color_loop(avg, shift, ctrl, threshold),
                             avg, shift, ctrl)
        ELSE IF ~(vertex_colors_get(color_attr_name) \/ color_attributes_get(color_attr_name))
             THEN PickReturn("CANCELLED", select, avg, shift, ctrl)
             ELSE PickReturn("FINISHED", pick_vertex_color_loop(avg, shift, ctrl, threshold),
                             avg, shift, ctrl)

\* a mutant of pick_vertex_color_modal: only Edit and the paint modes are served
pick_vertex_color_modal_refuses(e) ==
    IF is_cancel_event(e) THEN PickCancelled
    ELSE IF is_confirm_event(e)
    THEN IF obj_type # "MESH" THEN PickCancelled
         ELSE IF ~e.ray.hit \/ e.ray.face_index < 0 THEN PickCancelled
         ELSE IF color_attribute = "" \/ color_attribute = "NONE" THEN PickCancelled
         ELSE IF mode # "EDIT" /\ mode \notin PaintModes THEN PickCancelled
         ELSE pick_vertex_color_confirm(e)
    ELSE PickReturn("RUNNING_MODAL", select, NoColor, FALSE, FALSE)

\* VCS_OT_pick_vertex_color.modal: the value returned, the flags it leaves, and the
\* reference colour and modifiers it matched with
pick_vertex_color_modal(e) ==
    IF is_cancel_event(e) THEN PickCancelled
    ELSE IF is_confirm_event(e)
    THEN IF obj_type # "MESH" THEN PickCancelled
         ELSE IF ~e.ray.hit \/ e.ray.face_index < 0 THEN PickCancelled
         ELSE IF color_attribute = "" \/ color_attribute = "NONE" THEN PickCancelled
         ELSE pick_vertex_color_confirm(e)
    ELSE PickReturn("RUNNING_MODAL", select, NoColor, FALSE, FALSE)

\* VCS_OT_pick_vertex_color.invoke: store the modifiers, add the modal handler
VCS_OT_pick_vertex_color_invoke ==
    /\ pick.state = "IDLE"
    /\ \E shift \in BOOLEAN, ctrl \in BOOLEAN :
        /\ pick' = [state |-> "RUNNING", self_shift |-> shift, self_ctrl |-> ctrl]
        /\ op' = [name |-> "pick_vertex_color.invoke", result |-> "RUNNING_MODAL",
                  target_color |-> NoColor, shift |-> shift, ctrl |-> ctrl]
    /\ event' = NoEvent
    /\ UNCHANGED <<obj_type, mode, color_attributes, color_attribute, corners,
                   select, cc, av>>
    /\ UNCHANGED list_vars

\* the host hands one event to the running modal handler
VCS_OT_pick_vertex_color_modal ==
    /\ pick.state = "RUNNING"
    /\ \E e \in Events :
        \E r \in {pick_vertex_color_modal(e)} :
            /\ select' = r.select
            /\ op' = [name |-> "pick_vertex_color.modal", result |-> r.result,
                      target_color |-> r.target_color, shift |-> r.shift, ctrl |-> r.ctrl]
            /\ event' = e
            /\ pick' = IF r.result = "RUNNING_MODAL" THEN pick ELSE IdlePick
    /\ UNCHANGED <<obj_type, mode, color_attributes, color_attribute, corners, cc, av>>
    /\ UNCHANGED list_vars

(***************************************************************************)
(* The add-on in the host: any mesh, any selection, any mode                *)
(***************************************************************************)
NoCall == [state |-> "idle"]

\* what the selected attribute name finds on the mesh
Attr(name, domain, data_type) ==
    [name |-> name, domain |-> domain, data_type |-> data_type]

AttrConfigs ==
    { [attrs |-> <<>>, selected |-> "NONE"],
      [attrs |-> <<>>, selected |-> ""],
      [attrs |-> <<>>, selected |-> "Col"],
      [attrs |-> << Attr("Col", "POINT", "BYTE_COLOR") >>, selected |-> "Col"],
      [attrs |-> << Attr("Col", "CORNER", "BYTE_COLOR") >>, selected |-> "NONE"],
      [attrs |-> << Attr("Col", "CORNER", "FLOAT_COLOR") >>, selected |-> "Col"],
      [attrs |-> << Attr("Col", "CORNER", "BYTE_COLOR") >>, selected |-> "Col"] }

\* what reading an enum property returns: the identifier of the item whose number is the
\* stored one (items without numbers are numbered 0, 1, ... in order), '' if there is none
enum_identifier(items, value) ==
    IF value >= 0 /\ value < Len(items) THEN items[value + 1] ELSE ""

\* get_refreshed_color_attr_items: the identifiers the dropdown offers; the list the
\* refresh operator stored on bpy.types.Scene, or the default item while there is none
get_refreshed_color_attr_items ==
    LET items == vc_selector_color_attr_items
    IN  IF Len(items) > 0 THEN items ELSE <<"NONE">>

\* the colour list is empty and the dropdown reads as the selected attribute
ListsAtRest ==
    /\ data_name = (IF obj_type = "MESH" THEN "Mesh" ELSE "")
    /\ color_previews = <<>>
    /\ vc_selector_face_colors = <<>>
    /\ last_mesh_id = ""
    /\ vc_selector_color_attr_items
            = (IF color_attribute = "" THEN <<"Col">> ELSE <<color_attribute>>)
    /\ color_attribute_value = (IF color_attribute = "" THEN 1 ELSE 0)

\* corner colours are the data of the selected CORNER layer: without one there are none
\* to tell meshes apart, and the mesh is the first one
Init ==
    /\ obj_type \in {"MESH", "NONE"}
    /\ mode \in Modes
    /\ (obj_type = "NONE" => mode = "OBJECT")
    /\ \E a \in AttrConfigs :
        /\ color_attributes = a.attrs
        /\ color_attribute = a.selected
    /\ corners \in MeshChoices
    /\ (obj_type = "NONE" \/ ~loops_layers_color_get(color_attribute)
            => corners = [f \in 1..NumFaces |-> FacePalette[f]])
    /\ select \in [1..NumFaces -> BOOLEAN]
    /\ op = NoOp
    /\ pick = IdlePick
    /\ event = NoEvent
    /\ cc = NoCall
    /\ av = NoCall
    /\ ListsAtRest

Next ==
    \/ VERTEXCOLOR_OT_select_this_color
    \/ VERTEXCOLOR_OT_select_faces_by_face_color
    \/ VCS_OT_pick_vertex_color_invoke
    \/ VCS_OT_pick_vertex_color_modal

Spec == Init /\ [][Next]_vars

(***************************************************************************)
(* color_close on its own: inputs drawn in the initial state, then called  *)
(***************************************************************************)
ColorSamples ==
    { Rgb(5000, 5000, 5000), Rgb(5050, 5050, 5050), Rgb(6000, 5000, 5000),
      Rgb(5100, 5000, 5000), Rgb(5030, 5040, 5000),
      [n |-> <<15001, 15000, 15000>>, d |-> 3] }

ThresholdSamples == {-5, 0, 50, 51, 86, 87, 100, 101}

HostAtRest ==
    /\ obj_type = "MESH"
    /\ mode = "EDIT"
    /\ color_attributes = << Attr("Col", "CORNER", "BYTE_COLOR") >>
    /\ color_attribute = "Col"
    /\ corners = [f \in 1..NumFaces |-> FacePalette[1]]
    /\ select = [f \in 1..NumFaces |-> FALSE]
    /\ op = NoOp
    /\ pick = IdlePick
    /\ event = NoEvent
    /\ ListsAtRest

HostUnchanged ==
    UNCHANGED <<obj_type, mode, color_attributes, color_attribute, corners, select,
                op, pick, event, list_vars>>

InitColorClose ==
    /\ HostAtRest
    /\ av = NoCall
    /\ cc \in [state : {"called"}, c1 : ColorSamples, c2 : ColorSamples,
               threshold : ThresholdSamples, result : {FALSE}]

CallColorClose ==
    /\ cc.state = "called"
    /\ cc' = [cc EXCEPT !.state = "returned",
                        !.result = color_close(cc.c1, cc.c2, cc.threshold)]
    /\ av' = av
    /\ HostUnchanged

SpecColorClose == InitColorClose /\ [][CallColorClose]_vars

(***************************************************************************)
(* the face average on its own: a corner list and a reordering of it       *)
(***************************************************************************)
CornerLists ==
    { FacePalette[k] : k \in DOMAIN FacePalette }
    \cup
    { << <<5000, 5100, 5200>>, <<5100, 5300, 5000>>, <<5200, 5000, 5101>> >>,
      << <<4900, 5000, 5000>>, <<5000, 5003, 5000>>, <<5100, 5000, 5002>>,
         <<5001, 5000, 5000>> >> }

Orderings(n) ==
    { p \in [1..n -> 1..n] : \A i, j \in 1..n : p[i] = p[j] => i = j }

Reorder(colors, p) == [i \in 1..Len(colors) |-> colors[p[i]]]

InitAverage ==
    /\ HostAtRest
    /\ cc = NoCall
    /\ \E colors \in CornerLists :
        \E p \in Orderings(Len(colors)) :
            av = [state |-> "called", colors |-> colors, perm |-> p,
                  linear |-> NoColor, linear_perm |-> NoColor,
                  mean |-> NoColor, mean_perm |-> NoColor]

CallAverage ==
    /\ av.state = "called"
    /\ av' = [av EXCEPT !.state = "returned",
                        !.linear = avg_linear(av.colors),
                        !.linear_perm = avg_linear(Reorder(av.colors, av.perm)),
                        !.mean = avg_color(av.colors),
                        !.mean_perm = avg_color(Reorder(av.colors, av.perm))]
    /\ cc' = cc
    /\ HostUnchanged

SpecAverage == InitAverage /\ [][CallAverage]_vars

(***************************************************************************)
(* Find Colors and the colour list                                         *)
(***************************************************************************)
\* label = f"Col_{idx}"
Label(idx) == <<"Col_", idx>>

\* what an operator on the colour list returns and leaves
ListReturn(result, previews, items, mesh_id) ==
    [result |-> result, color_previews |-> previews,
     vc_selector_face_colors |-> items, last_mesh_id |-> mesh_id]

\* clear_color_lists(scene): the enum is redefined with no items, the previews are cleared
clear_color_lists == [color_previews |-> <<>>, vc_selector_face_colors |-> <<>>]

\* a mutant of find_face_colors_loop: every face is listed, seen before or not
RECURSIVE find_face_colors_loop_all(_, _)
find_face_colors_loop_all(f, color_list) ==
    IF f > Len(corners) THEN color_list
    ELSE find_face_colors_loop_all(f + 1,
            Append(color_list, [name |-> Label(Len(color_list) + 1),
                                color |-> avg_linear(corners[f])]))

\* for face in bm.faces: the rounded averages not seen before, named in the order they
\* are met; idx is one more than the number of entries so far
RECURSIVE find_face_colors_loop(_, _)
find_face_colors_loop(f, color_list) ==
    IF f > Len(corners) THEN color_list
    ELSE LET colors == corners[f]
             avg == avg_linear(colors)
             seen_colors == { color_list[k].color : k \in DOMAIN color_list }
             idx == Len(color_list) + 1
         IN  IF avg \in seen_colors
             THEN find_face_colors_loop(f + 1, color_list)
             ELSE find_face_colors_loop(f + 1,
                     Append(color_list, [name |-> Label(idx), color |-> avg]))

\* items.append((str(avg_linear), label, "")): the identifier is the tuple as printed
enum_items(color_list) ==
    [k \in DOMAIN color_list |->
        [identifier |-> color_list[k].color.n, label |-> color_list[k].name]]

\* VERTEXCOLOR_OT_find_face_colors.execute: the value returned and the lists it leaves
find_face_colors_execute ==
    LET kept == ListReturn("CANCELLED", color_previews, vc_selector_face_colors,
                           last_mesh_id)
        color_attr_name == color_attribute
        current_mesh_id == data_name
        \* getattr(scene, "vc_selector_last_mesh_id", ""): the scene has no attribute of
        \* that name (last_mesh_id is a property of scene.vc_selector), so the default
        last_mesh_id_read == ""
        after_check ==
            IF current_mesh_id # last_mesh_id_read
            THEN ListReturn("NONE", clear_color_lists.color_previews,
                            clear_color_lists.vc_selector_face_colors, current_mesh_id)
            ELSE kept
    IN  IF ~(obj_type = "MESH" /\ mode = "EDIT") THEN kept
        ELSE IF color_attr_name = "" \/ color_attr_name = "NONE" THEN kept
        ELSE IF ~color_attributes_get(color_attr_name) THEN kept
        ELSE IF color_attribute_domain(color_attr_name) # "CORNER" THEN kept
        ELSE IF ~loops_layers_color_get(color_attr_name)
        THEN ListReturn("CANCELLED", after_check.color_previews,
                        after_check.vc_selector_face_colors, after_check.last_mesh_id)
        ELSE LET color_list == find_face_colors_loop(1, <<>>)
                 items == enum_items(color_list)
             IN  ListReturn("FINISHED", color_list, items, after_check.last_mesh_id)

ListOp(name, result) ==
    [name |-> name, result |-> result, target_color |-> NoColor,
     shift |-> FALSE, ctrl |-> FALSE]

VERTEXCOLOR_OT_find_face_colors ==
    /\ pick.state = "IDLE"
    /\ \E r \in {find_face_colors_execute} :
        /\ color_previews' = r.color_previews
        /\ vc_selector_face_colors' = r.vc_selector_face_colors
        /\ last_mesh_id' = r.last_mesh_id
        /\ op' = ListOp("find_face_colors", r.result)
    /\ event' = NoEvent
    /\ UNCHANGED <<obj_type, mode, color_attributes, color_attribute, corners, select,
                   pick, cc, av, data_name, vc_selector_color_attr_items,
                   color_attribute_value>>

\* VERTEXCOLOR_OT_clear_color_lists.execute
VERTEXCOLOR_OT_clear_color_lists ==
    /\ pick.state = "IDLE"
    /\ color_previews' = clear_color_lists.color_previews
    /\ vc_selector_face_colors' = clear_color_lists.vc_selector_face_colors
    /\ op' = ListOp("clear_color_lists", "FINISHED")
    /\ event' = NoEvent
    /\ UNCHANGED <<obj_type, mode, color_attributes, color_attribute, corners, select,
                   pick, cc, av, data_name, last_mesh_id, vc_selector_color_attr_items,
                   color_attribute_value>>

(***************************************************************************)
(* The attribute dropdown: the enum color_attribute and what keeps it valid *)
(***************************************************************************)
\* [attr.name for attr in obj.data.color_attributes if attr.domain == 'CORNER']
RECURSIVE corner_attr_names(_)
corner_attr_names(attrs) ==
    IF attrs = <<>> THEN <<>>
    ELSE (IF Head(attrs).domain = "CORNER" THEN <<Head(attrs).name>> ELSE <<>>)
            \o corner_attr_names(Tail(attrs))

InSeq(x, seq) == \E k \in DOMAIN seq : seq[k] = x

\* the number stored when an identifier is assigned to an enum with these items
enum_number(items, identifier) ==
    (CHOOSE k \in DOMAIN items : items[k] = identifier) - 1

\* what an assignment to color_attribute leaves: the stored number and the colour lists
AttrReturn(value, previews, items) ==
    [color_attribute_value |-> value, color_previews |-> previews,
     vc_selector_face_colors |-> items]

AttrKept == AttrReturn(color_attribute_value, color_previews, vc_selector_face_colors)

\* scene.vc_selector.color_attribute = identifier, with the items the dropdown offers now.
\* An identifier that is not offered raises TypeError and nothing is stored.  A stored
\* one runs color_attr_update: clear_color_lists, then ensure_valid_color_attribute
\* again, which finds the value just stored and leaves this state.
color_attribute_set(identifier) ==
    LET items == get_refreshed_color_attr_items
    IN  IF InSeq(identifier, items)
        THEN [raised |-> FALSE,
              state |-> AttrReturn(enum_number(items, identifier),
                                   clear_color_lists.color_previews,
                                   clear_color_lists.vc_selector_face_colors)]
        ELSE [raised |-> TRUE, state |-> AttrKept]

\* ensure_valid_color_attribute(context): the name the dropdown reads as afterwards and
\* the state left; the TypeError of a refused assignment is caught and passed over
ensure_valid_color_attribute ==
    LET current_attr == color_attribute
        available_attrs == corner_attr_names(color_attributes)
        wanted == IF Len(available_attrs) > 0 THEN available_attrs[1] ELSE "NONE"
        set == color_attribute_set(wanted)
    IN  IF obj_type # "MESH" THEN [name |-> current_attr, state |-> AttrKept]
        ELSE IF current_attr = "" \/ current_attr = "NONE"
                \/ ~InSeq(current_attr, available_attrs)
        THEN [name |-> IF set.raised THEN current_attr ELSE wanted, state |-> set.state]
        ELSE [name |-> current_attr, state |-> AttrKept]

\* scene_update_handler(scene), run by the host after every dependency graph update
scene_update_handler ==
    /\ pick.state = "IDLE"
    /\ \E r \in {ensure_valid_color_attribute} :
        /\ color_attribute' = r.name
        /\ color_attribute_value' = r.state.color_attribute_value
        /\ color_previews' = r.state.color_previews
        /\ vc_selector_face_colors' = r.state.vc_selector_face_colors
    /\ op' = ListOp("scene_update_handler", "NONE")
    /\ event' = NoEvent
    /\ UNCHANGED <<obj_type, mode, color_attributes, corners, select, pick, cc, av,
                   data_name, last_mesh_id, vc_selector_color_attr_items>>

\* VERTEXCOLOR_OT_refresh_color_attributes.execute: the items it stores on
\* bpy.types.Scene and the state it leaves.  The first CORNER attribute is assigned while
\* the dropdown still offers the old items; a refused assignment is caught and printed
refresh_color_attributes_execute ==
    LET corner_attrs == corner_attr_names(color_attributes)
        current_attr == color_attribute
        set == color_attribute_set(corner_attrs[1])
    IN  IF obj_type # "MESH"
        THEN [result |-> "CANCELLED", items |-> vc_selector_color_attr_items,
              state |-> AttrKept]
        ELSE IF Len(corner_attrs) = 0
        THEN [result |-> "FINISHED", items |-> <<"NONE">>, state |-> AttrKept]
        ELSE [result |-> "FINISHED", items |-> corner_attrs,
              state |-> IF current_attr = "" \/ current_attr = "NONE"
                           \/ ~InSeq(current_attr, corner_attrs)
                        THEN set.state ELSE AttrKept]

VERTEXCOLOR_OT_refresh_color_attributes ==
    /\ pick.state = "IDLE"
    /\ \E r \in {refresh_color_attributes_execute} :
        /\ vc_selector_color_attr_items' = r.items
        /\ color_attribute_value' = r.state.color_attribute_value
        /\ color_previews' = r.state.color_previews
        /\ vc_selector_face_colors' = r.state.vc_selector_face_colors
        /\ color_attribute' = enum_identifier(IF Len(r.items) > 0 THEN r.items ELSE <<"NONE">>,
                                              r.state.color_attribute_value)
        /\ op' = ListOp("refresh_color_attributes", r.result)
    /\ event' = NoEvent
    /\ UNCHANGED <<obj_type, mode, color_attributes, corners, select, pick, cc, av,
                   data_name, last_mesh_id>>

\* the attribute names the panel can ask for
AttrNames == {"Col", "Alt"}

\* VERTEXCOLOR_OT_set_color_attribute.execute; its assignment is not inside a try
set_color_attribute_execute(attr_name) ==
    LET corner_attrs == corner_attr_names(color_attributes)
        set == color_attribute_set(attr_name)
    IN  IF obj_type = "MESH"
        THEN IF InSeq(attr_name, corner_attrs)
             THEN IF set.raised
                  THEN [result |-> "RAISED", name |-> color_attribute, state |-> AttrKept]
                  ELSE [result |-> "FINISHED", name |-> attr_name, state |-> set.state]
             ELSE [result |-> "CANCELLED", name |-> color_attribute, state |-> AttrKept]
        ELSE [result |-> "CANCELLED", name |-> color_attribute, state |-> AttrKept]

VERTEXCOLOR_OT_set_color_attribute ==
    /\ pick.state = "IDLE"
    /\ \E attr_name \in AttrNames :
        \E r \in {set_color_attribute_execute(attr_name)} :
            /\ color_attribute' = r.name
            /\ color_attribute_value' = r.state.color_attribute_value
            /\ color_previews' = r.state.color_previews
            /\ vc_selector_face_colors' = r.state.vc_selector_face_colors
            /\ op' = ListOp("set_color_attribute", r.result)
    /\ event' = NoEvent
    /\ UNCHANGED <<obj_type, mode, color_attributes, corners, select, pick, cc, av,
                   data_name, last_mesh_id, vc_selector_color_attr_items>>

(***************************************************************************)
(* The add-on in a scene the user edits: objects are switched, attributes  *)
(* added, removed and converted, between the calls of the operators        *)
(***************************************************************************)
MeshAt(k) == [f \in 1..NumFaces |-> FacePalette[((k + f - 2) % Len(FacePalette)) + 1]]

\* what can be the active object: a mesh datablock, its attributes and its faces
SceneObjects ==
    { [type |-> "MESH", data_name |-> "Mesh", mesh |-> 1,
       attrs |-> << Attr("Col", "CORNER", "BYTE_COLOR") >>],
      [type |-> "MESH", data_name |-> "Mesh", mesh |-> 1,
       attrs |-> << Attr("Col", "CORNER", "FLOAT_COLOR") >>],
      [type |-> "MESH", data_name |-> "Mesh", mesh |-> 1,
       attrs |-> <<>>],
      [type |-> "MESH", data_name |-> "Mesh.001", mesh |-> 2,
       attrs |-> << Attr("Alt", "CORNER", "BYTE_COLOR"), Attr("Col", "CORNER", "BYTE_COLOR") >>],
      [type |-> "MESH", data_name |-> "Mesh.001", mesh |-> 2,
       attrs |-> << Attr("Col", "POINT", "BYTE_COLOR"), Attr("Alt", "CORNER", "BYTE_COLOR") >>],
      [type |-> "NONE", data_name |-> "", mesh |-> 1, attrs |-> <<>>] }

SceneModes == {"EDIT", "OBJECT"}

\* the add-on was registered just now: no refresh yet, the enum stores 0, no colour list
InitScene ==
    /\ \E o \in SceneObjects :
        /\ obj_type = o.type
        /\ data_name = o.data_name
        /\ color_attributes = o.attrs
        /\ corners = MeshAt(o.mesh)
    /\ mode \in SceneModes
    /\ (obj_type = "NONE" => mode = "OBJECT")
    /\ select = [f \in 1..NumFaces |-> FALSE]
    /\ op = NoOp
    /\ pick = IdlePick
    /\ event = NoEvent
    /\ cc = NoCall
    /\ av = NoCall
    /\ color_previews = <<>>
    /\ vc_selector_face_colors = <<>>
    /\ last_mesh_id = ""
    /\ vc_selector_color_attr_items = <<>>
    /\ color_attribute_value = 0
    /\ color_attribute = enum_identifier(get_refreshed_color_attr_items, 0)

\* the user makes another object active, edits the attributes of the mesh, or changes
\* the mode; the add-on's own state is not touched
HostChangesScene ==
    /\ pick.state = "IDLE"
    /\ \E o \in SceneObjects, m \in SceneModes :
        /\ (o.type = "NONE" => m = "OBJECT")
        /\ obj_type' = o.type
        /\ data_name' = o.data_name
        /\ color_attributes' = o.attrs
        /\ corners' = MeshAt(o.mesh)
        /\ mode' = m
    /\ op' = ListOp("host", "NONE")
    /\ event' = NoEvent
    /\ UNCHANGED <<color_attribute, select, pick, cc, av, color_previews,
                   vc_selector_face_colors, last_mesh_id, vc_selector_color_attr_items,
                   color_attribute_value>>

NextScene ==
    \/ VERTEXCOLOR_OT_find_face_colors
    \/ VERTEXCOLOR_OT_clear_color_lists
    \/ VERTEXCOLOR_OT_refresh_color_attributes
    \/ VERTEXCOLOR_OT_set_color_attribute
    \/ scene_update_handler
    \/ HostChangesScene

SpecScene == InitScene /\ [][NextScene]_vars

(***************************************************************************)
(* Properties                                                              *)
(***************************************************************************)
SelectionOps ==
    {"select_this_color", "select_faces_by_face_color", "pick_vertex_color.modal"}

SupportedModes == {"EDIT"} \cup PaintModes

\* the face's representative colour is within 0.01 of the target
Matches(f, target) ==
    SquaredDistance(avg_linear(corners[f]), target)
        < (VC_SELECTOR_THRESHOLD * target.d) * (VC_SELECTOR_THRESHOLD * target.d)

\* C1: after an operator finished with neither shift nor ctrl in effect, a face is
\* selected if and only if its representative colour matches the target colour
C1_PlainClickReplaces ==
    (op.name \in SelectionOps /\ op.result = "FINISHED" /\ ~op.shift /\ ~op.ctrl)
        => \A f \in Faces : select[f] = Matches(f, op.target_color)

C1_Witness ==
    /\ op.name = "select_this_color" /\ op.result = "FINISHED"
    /\ ~op.shift /\ ~op.ctrl
    /\ \E f, g \in Faces : select[f] /\ ~select[g]

\* C2: with shift and without ctrl in effect, Select This Color and Pick Vertex Color
\* leave the old selection united with the matching faces
C2_AddIntent ==
    [][ (/\ op'.name \in {"select_this_color", "pick_vertex_color.modal"}
         /\ op'.result = "FINISHED" /\ op'.shift /\ ~op'.ctrl)
        => \A f \in Faces : select'[f] = (select[f] \/ Matches(f, op'.target_color)) ]_vars

C2_Witness ==
    /\ op.name = "select_this_color" /\ op.result = "FINISHED"
    /\ op.shift /\ ~op.ctrl
    /\ \E f, g \in Faces :
        /\ select[f] /\ ~Matches(f, op.target_color)
        /\ select[g] /\ Matches(g, op.target_color)

\* C3: with ctrl in effect (with or without shift), Select This Color and Pick Vertex
\* Color leave the old selection minus the matching faces
C3_SubtractIntent ==
    [][ (/\ op'.name \in {"select_this_color", "pick_vertex_color.modal"}
         /\ op'.result = "FINISHED" /\ op'.ctrl)
        => \A f \in Faces : select'[f] = (select[f] /\ ~Matches(f, op'.target_color)) ]_vars

C3_Witness ==
    /\ op.name = "select_this_color" /\ op.result = "FINISHED"
    /\ op.shift /\ op.ctrl
    /\ \E f, g \in Faces :
        /\ select[f] /\ ~Matches(f, op.target_color)
        /\ ~select[g] /\ Matches(g, op.target_color)

\* C4: color_close(a, b, t) is true exactly when the Euclidean distance of a and b is
\* strictly less than t (a distance equal to t is no match), and it is symmetric
C4_ColorCloseStrict ==
    cc.state = "returned" =>
        LET bound == cc.threshold * cc.c1.d * cc.c2.d
        IN  /\ cc.result = (cc.threshold > 0
                              /\ SquaredDistance(cc.c1, cc.c2) < bound * bound)
            /\ cc.result = color_close(cc.c2, cc.c1, cc.threshold)

C4_Witness ==
    /\ cc.state = "returned"
    /\ cc.threshold > 0
    /\ SquaredDistance(cc.c1, cc.c2)
         = (cc.threshold * cc.c1.d * cc.c2.d) * (cc.threshold * cc.c1.d * cc.c2.d)
    /\ ~cc.result

\* C5: with threshold 0.01, (0.50,0.50,0.50) and (0.505,0.505,0.505) are close, and
\* (0.50,0.50,0.50) and (0.60,0.50,0.50) are not
C5_StatedExamples ==
    (/\ cc.state = "returned"
     /\ cc.threshold = VC_SELECTOR_THRESHOLD
     /\ cc.c1 = Rgb(5000, 5000, 5000))
        => /\ (cc.c2 = Rgb(5050, 5050, 5050) => cc.result)
           /\ (cc.c2 = Rgb(6000, 5000, 5000) => ~cc.result)

C5_Witness ==
    /\ cc.state = "returned"
    /\ cc.threshold = VC_SELECTOR_THRESHOLD
    /\ cc.c1 = Rgb(5000, 5000, 5000)
    /\ cc.c2 = Rgb(5050, 5050, 5050)
    /\ cc.result

\* the sum of a channel, added from the right
RECURSIVE ChannelTotal(_, _)
ChannelTotal(colors, i) ==
    IF colors = <<>> THEN 0 ELSE Head(colors)[i] + ChannelTotal(Tail(colors), i)

\* C6: the average of a corner list is the same for every reordering of the list, the
\* unrounded one is the arithmetic mean and the rounded one is within half a unit
\* (0.00005) of it
C6_AverageOrderIndependent ==
    av.state = "returned" =>
        LET n == Len(av.colors)
        IN  /\ av.linear = av.linear_perm
            /\ SameColor(av.mean, av.mean_perm)
            /\ \A i \in Channels :
                LET total == ChannelTotal(av.colors, i)
                    error == av.linear.n[i] * n - total
                IN  /\ av.mean.n[i] * n = total * av.mean.d
                    /\ 2 * error <= n /\ 2 * error >= -n

C6_Witness ==
    /\ av.state = "returned"
    /\ av.perm # [i \in 1..Len(av.colors) |-> i]
    /\ Reorder(av.colors, av.perm) # av.colors
    /\ av.linear.n[1] * Len(av.colors) # ChannelTotal(av.colors, 1)

\* the face under the cursor at a confirming click
PickedFace(e) == e.ray.face_index + 1

ConfirmedOn(e) == e.type = "LEFTMOUSE" /\ e.value = "PRESS"

\* C7: every operator matches faces by their mean rounded to 4 decimal places, and the
\* reference colour Pick Vertex Color matches against is the rounded mean of the
\* picked face
C7_PickReferenceRounded ==
    /\ (op.name \in SelectionOps /\ op.result = "FINISHED" /\ ~op.shift /\ ~op.ctrl)
            => \A f \in Faces : select[f] = Matches(f, op.target_color)
    /\ (op.name = "pick_vertex_color.modal" /\ op.result = "FINISHED")
            => SameColor(op.target_color, avg_linear(corners[PickedFace(event)]))

\* C8: the modal operator, once invoked, ends on an escape or right-mouse event
\* (CANCELLED, no flag changed) and on a left-mouse press, and on every other event
\* it stays RUNNING_MODAL and changes nothing
C8_ModalTermination ==
    [][ /\ (op'.name = "pick_vertex_color.invoke")
            => (pick'.state = "RUNNING" /\ op'.result = "RUNNING_MODAL" /\ select' = select)
        /\ (pick.state = "RUNNING" /\ op'.name = "pick_vertex_color.modal")
            => IF event'.type \in {"RIGHTMOUSE", "ESC"}
               THEN pick'.state = "IDLE" /\ op'.result = "CANCELLED" /\ select' = select
               ELSE IF ConfirmedOn(event')
               THEN pick'.state = "IDLE" /\ op'.result \in {"FINISHED", "CANCELLED"}
               ELSE /\ pick' = pick /\ op'.result = "RUNNING_MODAL"
                    /\ select' = select
                    /\ UNCHANGED <<obj_type, mode, color_attributes, color_attribute,
                                   corners>> ]_vars

C8_Witness ==
    /\ pick.state = "RUNNING"
    /\ op.name = "pick_vertex_color.modal" /\ op.result = "RUNNING_MODAL"
    /\ event.type = "LEFTMOUSE" /\ event.value = "RELEASE"

\* the selected attribute names no layer the operator can read in this mode
NoAttributeSelected == color_attribute = "" \/ color_attribute = "NONE"

NoCornerLayer ==
    ~\E k \in DOMAIN color_attributes :
        /\ color_attributes[k].name = color_attribute
        /\ color_attributes[k].domain = "CORNER"

\* a failure the claim lists, where the operator that ran tests for it
ListedFailure(o, e) ==
    \/ /\ o.name = "select_this_color"
       /\ obj_type = "MESH"
       /\ (NoAttributeSelected \/ NoCornerLayer)
    \/ /\ o.name = "select_faces_by_face_color"
       /\ obj_type = "MESH"
       /\ (NoAttributeSelected \/ (o.target_color # NoColor /\ NoCornerLayer))
    \/ /\ o.name = "pick_vertex_color.modal"
       /\ ConfirmedOn(e)
       /\ \/ obj_type # "MESH"
          \/ ~e.ray.hit
          \/ e.ray.face_index < 0
          \/ e.ray.face_index >= NumFaces
          \/ NoAttributeSelected
          \/ NoCornerLayer

CompletedRun(o, e) ==
    \/ o.name \in {"select_this_color", "select_faces_by_face_color"}
    \/ o.name = "pick_vertex_color.modal" /\ ConfirmedOn(e)

\* C10 as stated: in a mode other than Edit and the three paint modes each of the three
\* selection operators fails (an operator that raises counts as failed) and changes no
\* selection flag
C10_WrongModeFails ==
    [][ (obj_type = "MESH" /\ mode \notin SupportedModes /\ CompletedRun(op', event'))
        => (op'.result # "FINISHED" /\ select' = select) ]_vars

\* what the loops of Select This Color and Pick Vertex Color leave of the selection
AfterLoop(old, f, target, shift, ctrl) ==
    IF Matches(f, target) THEN ~ctrl
    ELSE IF ~shift /\ ~ctrl THEN FALSE
    ELSE old[f]

\* C10 amended: in an unsupported mode Select This Color returns CANCELLED and Select
\* Faces By Face Color returns CANCELLED (or raises, when an attribute is selected and
\* its face_colors value is empty), and neither changes a flag; Pick Vertex Color tests
\* no mode: in every mode but Edit, Object mode included, a confirming click on a face
\* of the mesh whose selected attribute is a CORNER layer selects by the picked colour
\* and returns FINISHED
C10_WrongModeAmended ==
    [][ /\ (obj_type = "MESH" /\ mode \notin SupportedModes
              /\ op'.name = "select_this_color")
            => (op'.result = "CANCELLED" /\ select' = select)
        /\ (obj_type = "MESH" /\ mode \notin SupportedModes
              /\ op'.name = "select_faces_by_face_color")
            => /\ select' = select
               /\ op'.result = IF ~NoAttributeSelected /\ op'.target_color = NoColor
                               THEN "RAISED" ELSE "CANCELLED"
        /\ (/\ obj_type = "MESH" /\ mode # "EDIT"
            /\ op'.name = "pick_vertex_color.modal" /\ ConfirmedOn(event')
            /\ event'.ray.hit
            /\ event'.ray.face_index >= 0 /\ event'.ray.face_index < NumFaces
            /\ ~NoAttributeSelected /\ ~NoCornerLayer)
            => /\ op'.result = "FINISHED"
               /\ \A f \in Faces :
                    select'[f] = AfterLoop(select, f, op'.target_color, op'.shift, op'.ctrl) ]_vars

C10_Witness ==
    /\ obj_type = "MESH" /\ mode = "OBJECT"
    /\ op.name = "pick_vertex_color.modal" /\ op.result = "FINISHED"
    /\ \E f, g \in Faces : select[f] /\ ~select[g]

\* C11: a Find Colors that returns CANCELLED leaves the colour list untouched: the
\* color_previews collection and the items of the face-colors enum are what they were
\* before the call
C11_FailedFindKeepsList ==
    [][ (op'.name = "find_face_colors" /\ op'.result = "CANCELLED")
        => /\ color_previews' = color_previews
           /\ vc_selector_face_colors' = vc_selector_face_colors ]_vars

\* the first face whose rounded average is this colour
FirstFace(c) ==
    CHOOSE f \in Faces :
        /\ avg_linear(corners[f]) = c
        /\ \A g \in Faces : g < f => avg_linear(corners[g]) # c

\* C12: after a successful Find Colors the colour list holds exactly the distinct rounded
\* face averages of the mesh: no colour twice, an entry for every average that occurs and
\* for no other colour, in the order of the first face with that average, named Col_1,
\* Col_2, ... consecutively (and the enum items are the same list)
C12_ListIsDistinctAverages ==
    (op.name = "find_face_colors" /\ op.result = "FINISHED")
        => /\ \A j, k \in DOMAIN color_previews :
                color_previews[j].color = color_previews[k].color => j = k
           /\ \A f \in Faces :
                \E k \in DOMAIN color_previews :
                    color_previews[k].color = avg_linear(corners[f])
           /\ \A k \in DOMAIN color_previews :
                \E f \in Faces : avg_linear(corners[f]) = color_previews[k].color
           /\ \A j, k \in DOMAIN color_previews :
                j < k => FirstFace(color_previews[j].color) < FirstFace(color_previews[k].color)
           /\ \A k \in DOMAIN color_previews : color_previews[k].name = <<"Col_", k>>
           /\ DOMAIN vc_selector_face_colors = DOMAIN color_previews
           /\ \A k \in DOMAIN color_previews :
                /\ vc_selector_face_colors[k].identifier = color_previews[k].color.n
                /\ vc_selector_face_colors[k].label = color_previews[k].name

\* two faces share an average, so the list is shorter than the mesh
C12_Witness ==
    /\ op.name = "find_face_colors" /\ op.result = "FINISHED"
    /\ Len(color_previews) >= 2
    /\ Len(color_previews) < NumFaces
    /\ \E f, g \in Faces : f # g /\ avg_linear(corners[f]) = avg_linear(corners[g])

\* C13: when shift or ctrl is held at the confirming click, Pick Vertex Color selects
\* with the shift and ctrl of that click, both taken from the click; only when neither
\* is held does it select with the shift and ctrl recorded at the invocation
C13_ModifierPriority ==
    [][ (op'.name = "pick_vertex_color.modal" /\ op'.result = "FINISHED")
        => LET held == event'.shift \/ event'.ctrl
               shift == IF held THEN event'.shift ELSE pick.self_shift
               ctrl == IF held THEN event'.ctrl ELSE pick.self_ctrl
           IN  /\ op'.shift = shift /\ op'.ctrl = ctrl
               /\ \A f \in Faces :
                    select'[f] = AfterLoop(select, f, op'.target_color, shift, ctrl) ]_vars

\* no modifier at the click, and the selection was made with those of the invocation
C13_Witness ==
    /\ op.name = "pick_vertex_color.modal" /\ op.result = "FINISHED"
    /\ ~event.shift /\ ~event.ctrl
    /\ op.shift /\ op.ctrl
    /\ \E f, g \in Faces : select[f] /\ ~select[g]

\* C14: whenever ensure_valid_color_attribute returns with a mesh object active, the
\* selected color_attribute is one of the mesh's CORNER colour attributes if there is
\* any (the one it was if that was one of them, the first available otherwise), and it
\* is "NONE" if the mesh has none
C14_SelectedAttributeValid ==
    [][ (op'.name = "scene_update_handler" /\ obj_type' = "MESH")
        => LET available_attrs == corner_attr_names(color_attributes')
           IN  IF Len(available_attrs) > 0
               THEN /\ InSeq(color_attribute', available_attrs)
                    /\ color_attribute' = IF InSeq(color_attribute, available_attrs)
                                          THEN color_attribute
                                          ELSE available_attrs[1]
               ELSE color_attribute' = "NONE" ]_vars

\* the colour Find Colors lists for a face: the entry with the face's rounded average
ListedColor(f) ==
    LET color_list == find_face_colors_loop(1, <<>>)
        k == CHOOSE j \in DOMAIN color_list : color_list[j].color = avg_linear(corners[f])
    IN  color_list[k].color

\* C15: in a mode both operators serve, Pick Vertex Color confirmed on a face with no
\* modifier in effect leaves the same selection as Select This Color with no modifier
\* applied to the colour Find Colors lists for that face
C15_PickEqualsListedColor ==
    [][ (/\ op'.name = "pick_vertex_color.modal" /\ op'.result = "FINISHED"
         /\ ~op'.shift /\ ~op'.ctrl
         /\ mode \in SupportedModes)
        => select' = select_this_color_execute(ListedColor(PickedFace(event')),
                                               FALSE, FALSE).select ]_vars

\* C16: whenever Pick Vertex Color finishes on a face, the reference colour is the
\* unrounded mean of that face, the face's own rounded average is within the threshold
\* of it, and so the face ends selected when ctrl is not in effect and unselected when
\* ctrl is in effect
C16_PickedFaceMatchesItself ==
    (op.name = "pick_vertex_color.modal" /\ op.result = "FINISHED")
        => LET f == PickedFace(event)
               reference == avg_color(corners[f])
               bound == VC_SELECTOR_THRESHOLD * reference.d
           IN  /\ SameColor(op.target_color, reference)
               /\ SquaredDistance(avg_linear(corners[f]), reference) < bound * bound
               /\ select[f] = ~op.ctrl

\* a picked face whose rounded average differs from its mean, deselected under ctrl
C16_Witness ==
    /\ op.name = "pick_vertex_color.modal" /\ op.result = "FINISHED"
    /\ op.ctrl
    /\ ~SameColor(avg_linear(corners[PickedFace(event)]), avg_color(corners[PickedFace(event)]))
    /\ ~select[PickedFace(event)]
    /\ \E g \in Faces : select[g]

====
